---- MODULE Spec2Model ----
(***************************************************************************)
(* Club-award scoring pipeline (src/src/processors.py).                    *)
(*                                                                         *)
(* Strings are sequences of one-character strings, so that strip, lower,   *)
(* splitlines, substring search and the sender regular expression are      *)
(* computed character by character as the Python code computes them.       *)
(* Floating-point metrics and scores are exact rationals [n, d].           *)
(***************************************************************************)
EXTENDS Integers, Sequences, FiniteSets, TLC

VARIABLES
    pc,              \* position of the operation under study
    club_name,       \* assign_club_to_category: argument club_name
    text,            \* assign_club_to_category: argument text
    category,        \* assign_club_to_category: returned value
    content_bytes,   \* parse_whatsapp_text_file_bytes: argument
    res,             \* parse_whatsapp_text_file_bytes: returned dict
    uploaded_files,  \* parse_whatsapp_folder: argument
    rows,            \* parse_whatsapp_folder: the rows list
    next_file,       \* parse_whatsapp_folder: position of the for loop
    file_like,       \* parse_event_log: the table read from the argument
    event_out,       \* parse_event_log: outcome (aggregate or exception)
    survey_agg_df,   \* compute_group_scores: argument
    sentiment_df,    \* compute_group_scores: argument
    whatsapp_df,     \* compute_group_scores: argument
    event_agg_df,    \* compute_group_scores: argument
    df,              \* compute_group_scores: merged and filled table
    final,           \* compute_group_scores: returned full table
    winners          \* compute_group_scores: returned winners table

catVars    == <<club_name, text, category>>
chatVars   == <<content_bytes, res>>
folderVars == <<uploaded_files, rows, next_file>>
eventVars  == <<file_like, event_out>>
scoreVars  == <<survey_agg_df, sentiment_df, whatsapp_df, event_agg_df, df, final, winners>>

vars == <<pc, catVars, chatVars, folderVars, eventVars, scoreVars>>

\* A variable that the operation under study does not use.
Idle == "idle"

catIdle    == club_name = Idle /\ text = Idle /\ category = Idle
chatIdle   == content_bytes = Idle /\ res = Idle
folderIdle == uploaded_files = Idle /\ rows = Idle /\ next_file = Idle
eventIdle  == file_like = Idle /\ event_out = Idle
scoreIdle  ==
    /\ survey_agg_df = Idle /\ sentiment_df = Idle /\ whatsapp_df = Idle
    /\ event_agg_df = Idle /\ df = Idle /\ final = Idle /\ winners = Idle

(***************************************************************************)
(* Python string primitives                                                *)
(***************************************************************************)

UpperChars == <<"A","B","C","D","E","F","G","H","I","J","K","L","M",
                "N","O","P","Q","R","S","T","U","V","W","X","Y","Z">>

LowerChars == <<"a","b","c","d","e","f","g","h","i","j","k","l","m",
                "n","o","p","q","r","s","t","u","v","w","x","y","z">>

\* str.lower() on one character.
LowerChar(c) ==
    IF \E i \in 1..Len(UpperChars) : UpperChars[i] = c
    THEN LowerChars[CHOOSE i \in 1..Len(UpperChars) : UpperChars[i] = c]
    ELSE c

\* str.lower()
Lower(s) == [i \in 1..Len(s) |-> LowerChar(s[i])]

\* The characters str.strip() removes.
IsSpace(c) == c \in {" ", "\t", "\n", "\r", "\f"}

RECURSIVE LStrip(_)
LStrip(s) == IF s # <<>> /\ IsSpace(Head(s)) THEN LStrip(Tail(s)) ELSE s

RECURSIVE RStrip(_)
RStrip(s) ==
    IF s # <<>> /\ IsSpace(s[Len(s)]) THEN RStrip(SubSeq(s, 1, Len(s) - 1)) ELSE s

\* str.strip()
Strip(s) == RStrip(LStrip(s))

\* Python's "k in s" for strings: k occurs as a contiguous substring of s.
Contains(s, k) ==
    \E i \in 1..(Len(s) - Len(k) + 1) : \A j \in 1..Len(k) : s[i + j - 1] = k[j]

\* "c in s" for one character c.
HasChar(s, c) == \E i \in 1..Len(s) : s[i] = c

\* The concatenation of a sequence of strings.
RECURSIVE Concat(_)
Concat(ss) == IF ss = <<>> THEN <<>> ELSE Head(ss) \o Concat(Tail(ss))

\* sep.join(ss)
RECURSIVE Join(_, _)
Join(sep, ss) ==
    IF ss = <<>> THEN <<>>
    ELSE IF Len(ss) = 1 THEN ss[1]
    ELSE ss[1] \o sep \o Join(sep, Tail(ss))

\* All sequences of at most n elements of S.
RECURSIVE SeqsUpTo(_, _)
SeqsUpTo(S, n) ==
    IF n = 0 THEN {<<>>}
    ELSE LET shorter == SeqsUpTo(S, n - 1)
         IN  shorter \cup {Append(q, x) : q \in shorter, x \in S}

\* any(k in s for k in keywords)
AnyKeyword(s, keywords) == \E i \in 1..Len(keywords) : Contains(s, keywords[i])

normalize_name(name) == Lower(Strip(name))

(***************************************************************************)
(* Module constants                                                        *)
(***************************************************************************)

EVENT_KEYWORDS ==
  <<  <<"e", "v", "e", "n", "t">>,
    <<"w", "o", "r", "k", "s", "h", "o", "p">>,
    <<"h", "a", "c", "k", "a", "t", "h", "o", "n">>,
    <<"a", "u", "d", "i", "t", "i", "o", "n">>,
    <<"r", "e", "h", "e", "a", "r", "s", "a", "l">>,
    <<"m", "a", "t", "c", "h">>,
    <<"t", "o", "u", "r", "n", "a", "m", "e", "n", "t">>,
    <<"s", "e", "m", "i", "n", "a", "r">>,
    <<"c", "o", "m", "p", "e", "t", "i", "t", "i", "o", "n">>,
    <<"t", "r", "y", "o", "u", "t", "s">>,
    <<"p", "r", "a", "c", "t", "i", "c", "e">>,
    <<"s", "e", "s", "s", "i", "o", "n">>,
    <<"r", "e", "g", "i", "s", "t", "e", "r">>,
    <<"r", "e", "g", "i", "s", "t", "e", "r", " ", "b", "y">>,
    <<"m", "e", "e", "t">>,
    <<"m", "e", "e", "t", "u", "p">>,
    <<"t", "a", "l", "k">>,
    <<"w", "e", "b", "i", "n", "a", "r">>,
    <<"p", "r", "e", "s", "e", "n", "t", "a", "t", "i", "o", "n">>,
    <<"c", "o", "n", "t", "e", "s", "t">> >>

CATEGORY_KEYWORDS ==
  ("tech" :>
  <<  <<"c", "o", "d", "i", "n", "g">>,
    <<"r", "o", "b", "o", "t", "i", "c", "s">>,
    <<"p", "r", "o", "g", "r", "a", "m", "m", "i", "n", "g">>,
    <<"h", "a", "c", "k", "a", "t", "h", "o", "n">>,
    <<"p", "y", "t", "h", "o", "n">>,
    <<"j", "a", "v", "a">>,
    <<"e", "m", "b", "e", "d", "d", "e", "d">>,
    <<"e", "l", "e", "c", "t", "r", "o", "n", "i", "c", "s">> >>)
  @@ ("sports" :>
  <<  <<"f", "o", "o", "t", "b", "a", "l", "l">>,
    <<"b", "a", "s", "k", "e", "t", "b", "a", "l", "l">>,
    <<"c", "r", "i", "c", "k", "e", "t">>,
    <<"t", "e", "n", "n", "i", "s">>,
    <<"s", "o", "c", "c", "e", "r">>,
    <<"t", "r", "a", "i", "n", "i", "n", "g">>,
    <<"m", "a", "t", "c", "h">>,
    <<"t", "o", "u", "r", "n", "a", "m", "e", "n", "t">>,
    <<"c", "a", "m", "p">>,
    <<"p", "r", "a", "c", "t", "i", "c", "e">>,
    <<"t", "r", "y", "o", "u", "t", "s">> >>)
  @@ ("entertainment" :>
  <<  <<"m", "u", "s", "i", "c">>,
    <<"d", "a", "n", "c", "e">>,
    <<"d", "r", "a", "m", "a">>,
    <<"t", "h", "e", "a", "t", "r", "e">>,
    <<"a", "c", "o", "u", "s", "t", "i", "c">>,
    <<"p", "l", "a", "y">>,
    <<"s", "i", "n", "g", "i", "n", "g">>,
    <<"p", "e", "r", "f", "o", "r", "m", "a", "n", "c", "e">>,
    <<"r", "e", "c", "o", "r", "d", "i", "n", "g">> >>)
  @@ ("literature & knowledge" :>
  <<  <<"q", "u", "i", "z">>,
    <<"d", "e", "b", "a", "t", "e">>,
    <<"t", "a", "m", "i", "l">>,
    <<"l", "e", "c", "t", "u", "r", "e">>,
    <<"k", "n", "o", "w", "l", "e", "d", "g", "e">>,
    <<"m", "u", "n">>,
    <<"c", "u", "l", "t", "u", "r", "a", "l">>,
    <<"s", "e", "m", "i", "n", "a", "r">>,
    <<"t", "a", "l", "k">> >>)

\* The iteration order of the CATEGORY_KEYWORDS dict (insertion order).
CATEGORY_ORDER == <<"tech", "sports", "entertainment", "literature & knowledge">>

FALLBACK == "others"

(***************************************************************************)
(* assign_club_to_category                                                 *)
(***************************************************************************)

\* f"{club_name} {text}".lower()
CombinedText(name, txt) == Lower(name \o <<" ">> \o txt)

\* The for loop over CATEGORY_KEYWORDS.items() from position i on.
RECURSIVE CategoryFrom(_, _)
CategoryFrom(combined, i) ==
    IF i > Len(CATEGORY_ORDER) THEN FALLBACK
    ELSE IF AnyKeyword(combined, CATEGORY_KEYWORDS[CATEGORY_ORDER[i]])
         THEN CATEGORY_ORDER[i]
         ELSE CategoryFrom(combined, i + 1)

\* Mutant: the loop keeps the last matching category instead of returning
\* at the first one.
CategoryLastMatch(name, txt) ==
    LET combined == CombinedText(name, txt)
        hits == {i \in 1..Len(CATEGORY_ORDER) :
                    AnyKeyword(combined, CATEGORY_KEYWORDS[CATEGORY_ORDER[i]])}
    IN  IF hits = {} THEN FALLBACK
        ELSE CATEGORY_ORDER[CHOOSE i \in hits : \A j \in hits : j <= i]

assign_club_to_category(name, txt) == CategoryFrom(CombinedText(name, txt), 1)

(***************************************************************************)
(* Category assignment: inputs and operation                               *)
(***************************************************************************)

\* The number of text fragments a grouping text is built from.
MaxTextFrags == 2

NAME_SAMPLES ==
    {   <<"R", "o", "b", "o", "t", "i", "c", "s">>,
        <<"c", "h", "e", "s", "s">>,
        <<" ", "D", "r", "a", "m", "a", " ", "C", "l", "u", "b">>,
        <<"C", "o", "m", "m", "u", "n", "i", "t", "y">>,
        <<"C", "r", "i", "c", "k", "e", "t">> }

TEXT_FRAGMENTS ==
    {   <<"P", "y", "t", "h", "o", "n", " ", "H", "a", "c", "k", "a", "t", "h", "o", "n">>,
        <<"m", "a", "t", "c", "h">>,
        <<"P", "l", "a", "y">>,
        <<"q", "u", "i", "z">>,
        <<"c", "a">>,
        <<"m", "p">>,
        <<" ">> }

GroupingTexts == {Concat(q) : q \in SeqsUpTo(TEXT_FRAGMENTS, MaxTextFrags)}

InitCategory ==
    /\ pc = "start"
    /\ club_name \in NAME_SAMPLES
    /\ text \in GroupingTexts
    /\ category = Idle
    /\ chatIdle /\ folderIdle /\ eventIdle /\ scoreIdle

AssignCategory ==
    /\ pc = "start"
    /\ category' = assign_club_to_category(club_name, text)
    /\ pc' = "done"
    /\ UNCHANGED <<club_name, text, chatVars, folderVars, eventVars, scoreVars>>

NextCategory == AssignCategory

SpecCategory == InitCategory /\ [][NextCategory]_vars

\* The keyword sets in the order the claim declares them.
DeclaredOrder == <<"tech", "sports", "entertainment", "literature & knowledge">>

\* Category c has a keyword occurring in the lower-cased "{identity} {text}".
Matches(c) == \E i \in 1..Len(CATEGORY_KEYWORDS[c]) :
                  Contains(Lower(club_name \o <<" ">> \o text), CATEGORY_KEYWORDS[c][i])

\* C2: the category returned is exactly one value: the first category of the
\* declaration order tech, sports, entertainment, literature & knowledge with
\* a keyword occurring in the lower-cased "{identity} {text}", and "others"
\* exactly when no category has one.
C2_FirstMatchTotal ==
    pc = "done" =>
        /\ category \in {DeclaredOrder[i] : i \in 1..4} \cup {"others"}
        /\ (category = "others") <=> (\A i \in 1..4 : ~Matches(DeclaredOrder[i]))
        /\ \A i \in 1..4 :
              (category = DeclaredOrder[i]) <=>
                  (Matches(DeclaredOrder[i]) /\ \A j \in 1..(i - 1) : ~Matches(DeclaredOrder[j]))

\* A club matching keywords of two categories has been assigned the earlier one.
C2_Witness ==
    /\ pc = "done"
    /\ Matches("sports")
    /\ Matches("entertainment")
    /\ ~Matches("tech")
    /\ category = "sports"

(***************************************************************************)
(* parse_whatsapp_text_file_bytes                                          *)
(***************************************************************************)

\* A byte that is not valid UTF-8.
INVALID_BYTE == "0xFF"

\* bytes.decode('utf-8', errors='ignore'): invalid bytes are dropped.
Decode(bytes) == SelectSeq(bytes, LAMBDA b : b # INVALID_BYTE)

\* The line boundaries of str.splitlines().
IsLineBreak(c) == c \in {"\n", "\r", "\f"}

\* str.splitlines(), cur being the line read so far: "\r\n" is one boundary
\* and a trailing boundary opens no empty last line.
RECURSIVE SplitFrom(_, _)
SplitFrom(s, cur) ==
    IF s = <<>> THEN (IF cur = <<>> THEN <<>> ELSE <<cur>>)
    ELSE IF IsLineBreak(Head(s))
         THEN LET rest == IF Head(s) = "\r" /\ Len(s) >= 2 /\ s[2] = "\n"
                          THEN Tail(Tail(s)) ELSE Tail(s)
              IN  <<cur>> \o SplitFrom(rest, <<>>)
         ELSE SplitFrom(Tail(s), Append(cur, Head(s)))

SplitLines(s) == SplitFrom(s, <<>>)

\* lines = [L.strip() for L in text.splitlines() if L.strip()]
StrippedLines(s) ==
    LET raw      == SplitLines(s)
        stripped == [i \in 1..Len(raw) |-> Strip(raw[i])]
    IN  SelectSeq(stripped, LAMBDA L : L # <<>>)

\* Mutant: a line counts when it has a hyphen or a colon.
IsMessageLineEither(L) == HasChar(L, "-") \/ HasChar(L, ":")

\* if '-' in L and ':' in L
IsMessageLine(L) == HasChar(L, "-") /\ HasChar(L, ":")

NoMatch == <<"no match">>

\* The pattern -\s*(.+?): tried at position i. \s* is greedy and gives back
\* one character at a time, (.+?) takes the fewest characters (at least
\* one, none of them a newline) that are followed by a colon. The value is
\* the captured group.
MatchAt(L, i) ==
    IF L[i] # "-" THEN NoMatch
    ELSE LET spaces == {k \in 0..(Len(L) - i) :
                            \A j \in (i + 1)..(i + k) : IsSpace(L[j])}
             colonAfter(g) == {c \in (g + 1)..Len(L) :
                                  /\ L[c] = ":"
                                  /\ \A j \in g..(c - 1) : L[j] # "\n"}
             ok == {k \in spaces : colonAfter(i + k + 1) # {}}
         IN  IF ok = {} THEN NoMatch
             ELSE LET k == CHOOSE x \in ok : \A y \in ok : y <= x
                      g == i + k + 1
                      c == CHOOSE x \in colonAfter(g) : \A y \in colonAfter(g) : x <= y
                  IN  SubSeq(L, g, c - 1)

\* sender_pattern.search(L): the match at the leftmost position that has one.
SenderSearch(L) ==
    LET at == {i \in 1..Len(L) : MatchAt(L, i) # NoMatch}
    IN  IF at = {} THEN NoMatch
        ELSE MatchAt(L, CHOOSE i \in at : \A j \in at : i <= j)

\* The body of the for loop over lines, from line i on, with the counters
\* and the sender set as accumulated so far.
RECURSIVE ScanLines(_, _, _, _, _)
ScanLines(lines, i, total_msgs, senders, event_mentions) ==
    IF i > Len(lines)
    THEN [total_msgs |-> total_msgs,
          unique_senders |-> Cardinality(senders),
          event_mentions |-> event_mentions]
    ELSE LET L == lines[i]
         IN  IF IsMessageLine(L)
             THEN LET m == SenderSearch(L)
                  IN  ScanLines(lines, i + 1, total_msgs + 1,
                                IF m # NoMatch THEN senders \cup {Strip(m)} ELSE senders,
                                IF AnyKeyword(Lower(L), EVENT_KEYWORDS)
                                THEN event_mentions + 1 ELSE event_mentions)
             ELSE ScanLines(lines, i + 1, total_msgs, senders, event_mentions)

parse_whatsapp_text_file_bytes(bytes) ==
    ScanLines(StrippedLines(Decode(bytes)), 1, 0, {}, 0)

(***************************************************************************)
(* Chat text: inputs and operation                                         *)
(***************************************************************************)

\* The number of fragments a chat file's content is built from.
MaxChatFrags == 5

CHAT_FRAGMENTS ==
    {<<"-">>, <<":">>, <<" ">>, <<"\n">>, <<"M", "e", "e", "t">>, <<INVALID_BYTE>>}

ChatContents == {Concat(q) : q \in SeqsUpTo(CHAT_FRAGMENTS, MaxChatFrags)}

InitChatText ==
    /\ pc = "start"
    /\ content_bytes \in ChatContents
    /\ res = Idle
    /\ catIdle /\ folderIdle /\ eventIdle /\ scoreIdle

ParseChatText ==
    /\ pc = "start"
    /\ res' = parse_whatsapp_text_file_bytes(content_bytes)
    /\ pc' = "done"
    /\ UNCHANGED <<content_bytes, catVars, folderVars, eventVars, scoreVars>>

NextChatText == ParseChatText

SpecChatText == InitChatText /\ [][NextChatText]_vars

\* The decoded text cut at its line breaks, before any stripping.
RawLines == SplitLines(Decode(content_bytes))

\* The raw lines that are not blank and hold both a hyphen and a colon.
MessageLineIndexes ==
    {i \in 1..Len(RawLines) :
        /\ \E j \in 1..Len(RawLines[i]) : ~IsSpace(RawLines[i][j])
        /\ \E j \in 1..Len(RawLines[i]) : RawLines[i][j] = "-"
        /\ \E j \in 1..Len(RawLines[i]) : RawLines[i][j] = ":"}

\* The message lines whose lower-cased text holds an event keyword.
EventLineIndexes ==
    {i \in MessageLineIndexes :
        \E k \in 1..Len(EVENT_KEYWORDS) : Contains(Lower(RawLines[i]), EVENT_KEYWORDS[k])}

\* C10: message_count is the number of non-blank lines holding both a hyphen
\* and a colon, event_mention_count the number of those lines whose
\* lower-cased text holds an event keyword; other lines add to no count and
\* to no sender, so a text without a message line yields 0, 0, 0.
C10_ChatLineCounting ==
    pc = "done" =>
        /\ res.total_msgs = Cardinality(MessageLineIndexes)
        /\ res.event_mentions = Cardinality(EventLineIndexes)
        /\ res.unique_senders <= res.total_msgs
        /\ (MessageLineIndexes = {} =>
               res = [total_msgs |-> 0, unique_senders |-> 0, event_mentions |-> 0])

\* A text with a message line that mentions an event and a line that lacks
\* the colon has been parsed.
C10_Witness ==
    /\ pc = "done"
    /\ Len(RawLines) = 2
    /\ Cardinality(MessageLineIndexes) = 1
    /\ res.event_mentions = 1
    /\ res.unique_senders = 1

(***************************************************************************)
(* parse_whatsapp_folder                                                   *)
(***************************************************************************)

\* The position of the last occurrence of c in p, 0 when there is none.
LastIndexOf(p, c) ==
    LET at == {i \in 1..Len(p) : p[i] = c}
    IN  IF at = {} THEN 0 ELSE CHOOSE i \in at : \A j \in at : j <= i

\* os.path.basename
Basename(p) == SubSeq(p, LastIndexOf(p, "/") + 1, Len(p))

\* os.path.splitext(p)[0]: the extension starts at the last dot, when that
\* dot follows the last separator and a character of the file name that is
\* not a dot.
SplitextRoot(p) ==
    LET sepIndex == LastIndexOf(p, "/")
        dotIndex == LastIndexOf(p, ".")
    IN  IF dotIndex > sepIndex /\ \E j \in (sepIndex + 1)..(dotIndex - 1) : p[j] # "."
        THEN SubSeq(p, 1, dotIndex - 1)
        ELSE p

\* An uploaded file has a non-empty name and a read method; any other source
\* is a path. fname = getattr(f, "name", None) or os.path.basename(f)
FileName(f) == IF f.kind = "upload" THEN f.name ELSE Basename(f.path)

ClubOfFile(f) == normalize_name(SplitextRoot(FileName(f)))

\* str.encode('utf-8') of text whose characters are all ASCII: one byte each,
\* none of them invalid.
Encode(str) == SelectSeq(str, LAMBDA c : c # INVALID_BYTE)

\* The bytes the try block obtains from a readable source.
ContentBytes(f) == IF f.is_str THEN Encode(f.content) ELSE f.content

\* The source raises inside the try block (f.read() or open()).
ReadRaises(f) == ~f.readable

\* except Exception: res = {'total_msgs':0,'unique_senders':0,'event_mentions':0}
FailedRes == [total_msgs |-> 0, unique_senders |-> 0, event_mentions |-> 0]

\* The dict appended to rows.
FolderRow(f, r) ==
    [club_name |-> ClubOfFile(f),
     whatsapp_msgs |-> r.total_msgs,
     whatsapp_unique_senders |-> r.unique_senders,
     whatsapp_event_mentions |-> r.event_mentions]

\* Mutant: the except clause skips the source without a row.
RowsSkippingFailure(rs, f) == rs

\* rows after the iteration of a source that raised.
RowsAfterFailure(rs, f) == Append(rs, FolderRow(f, FailedRes))

\* rows after the iteration of a source that was read.
RowsAfterRead(rs, f) ==
    Append(rs, FolderRow(f, parse_whatsapp_text_file_bytes(ContentBytes(f))))

\* The whole function: the rows of the returned DataFrame.
RECURSIVE FolderRowsFrom(_, _, _)
FolderRowsFrom(files, i, rs) ==
    IF i > Len(files) THEN rs
    ELSE FolderRowsFrom(files, i + 1,
                        IF ReadRaises(files[i]) THEN RowsAfterFailure(rs, files[i])
                                                ELSE RowsAfterRead(rs, files[i]))

parse_whatsapp_folder(files) == FolderRowsFrom(files, 1, <<>>)

(***************************************************************************)
(* Chat folder: inputs and operation                                       *)
(***************************************************************************)

\* The number of chat sources in a batch.
MaxFiles == 3

Upload(name, content, isStr, readable) ==
    [kind |-> "upload", name |-> name, path |-> <<>>,
     content |-> content, is_str |-> isStr, readable |-> readable]

PathSource(path, content, readable) ==
    [kind |-> "path", name |-> <<>>, path |-> path,
     content |-> content, is_str |-> FALSE, readable |-> readable]

CHAT_A == <<"1", "-", "A", "l", ":", "M", "e", "e", "t", "\n", "2", "-", "B", "o", ":", "x">>
CHAT_B == <<":", "-", ")", "\n", "h", "i">>

FILE_SAMPLES ==
    {   Upload(<<"C", "h", "e", "s", "s", ".", "t", "x", "t">>, CHAT_A, FALSE, TRUE),
        Upload(<<" ", "c", "h", "e", "s", "s", ".", "t", "x", "t">>, CHAT_B, TRUE, TRUE),
        Upload(<<"D", "r", "a", "m", "a", ".", "C", "l", "u", "b", ".", "t", "x", "t">>, CHAT_A, FALSE, FALSE),
        PathSource(<<"w", "a", "/", "R", "o", "b", "o", "t", "i", "c", "s", ".", "t", "x", "t">>, CHAT_B, TRUE),
        PathSource(<<"w", "a", "/", ".", "h", "i", "d", "d", "e", "n">>, CHAT_A, FALSE) }

InitFolder ==
    /\ pc = "loop"
    /\ uploaded_files \in SeqsUpTo(FILE_SAMPLES, MaxFiles)
    /\ rows = <<>>
    /\ next_file = 1
    /\ catIdle /\ chatIdle /\ eventIdle /\ scoreIdle

\* One iteration whose try block completes.
ReadSource ==
    /\ pc = "loop"
    /\ next_file <= Len(uploaded_files)
    /\ ~ReadRaises(uploaded_files[next_file])
    /\ rows' = RowsAfterRead(rows, uploaded_files[next_file])
    /\ next_file' = next_file + 1
    /\ UNCHANGED <<pc, uploaded_files, catVars, chatVars, eventVars, scoreVars>>

\* One iteration whose try block raises.
ReadFailure ==
    /\ pc = "loop"
    /\ next_file <= Len(uploaded_files)
    /\ ReadRaises(uploaded_files[next_file])
    /\ rows' = RowsAfterFailure(rows, uploaded_files[next_file])
    /\ next_file' = next_file + 1
    /\ UNCHANGED <<pc, uploaded_files, catVars, chatVars, eventVars, scoreVars>>

\* return pd.DataFrame(rows)
ReturnRows ==
    /\ pc = "loop"
    /\ next_file > Len(uploaded_files)
    /\ pc' = "done"
    /\ UNCHANGED <<folderVars, catVars, chatVars, eventVars, scoreVars>>

NextFolder == ReadSource \/ ReadFailure \/ ReturnRows

SpecFolder == InitFolder /\ [][NextFolder]_vars

\* The sources of the batch that can be read, in batch order.
ReadableSources == SelectSeq(uploaded_files, LAMBDA f : f.readable)

\* The returned rows at the positions of the sources that can be read.
RowsOfReadable ==
    LET keep == {i \in 1..Len(uploaded_files) : uploaded_files[i].readable}
        RECURSIVE Pick(_)
        Pick(i) == IF i > Len(rows) THEN <<>>
                   ELSE (IF i \in keep THEN <<rows[i]>> ELSE <<>>) \o Pick(i + 1)
    IN  Pick(1)

\* C8: a batch with failing sources is not aborted: it returns one row per
\* source, the row of a failing source has all three counts 0, and the rows of
\* the other sources are those of the batch without the failing sources.
C8_FailureIsolation ==
    pc = "done" =>
        /\ Len(rows) = Len(uploaded_files)
        /\ \A i \in 1..Len(uploaded_files) :
              ~uploaded_files[i].readable =>
                  /\ rows[i].whatsapp_msgs = 0
                  /\ rows[i].whatsapp_unique_senders = 0
                  /\ rows[i].whatsapp_event_mentions = 0
        /\ RowsOfReadable = parse_whatsapp_folder(ReadableSources)

\* A batch with a failing source between two sources that have messages.
C8_Witness ==
    /\ pc = "done"
    /\ Len(uploaded_files) = 3
    /\ uploaded_files[1].readable /\ ~uploaded_files[2].readable /\ uploaded_files[3].readable
    /\ rows[1].whatsapp_msgs > 0
    /\ rows[3].whatsapp_msgs > 0

(***************************************************************************)
(* parse_event_log                                                         *)
(***************************************************************************)

\* A missing cell (NaN).
NULL == <<"NaN">>

COL_CLUB_NAME == <<"c", "l", "u", "b", "_", "n", "a", "m", "e">>
COL_EVENT_TITLE == <<"e", "v", "e", "n", "t", "_", "t", "i", "t", "l", "e">>
COL_EVENT_DESCRIPTION == <<"e", "v", "e", "n", "t", "_", "d", "e", "s", "c", "r", "i", "p", "t", "i", "o", "n">>

\* for alt in ['Club Name','club','clubname']
CLUB_NAME_ALTS == << <<"C", "l", "u", "b", " ", "N", "a", "m", "e">>,
                     <<"c", "l", "u", "b">>,
                     <<"c", "l", "u", "b", "n", "a", "m", "e">> >>

\* for alt in ['Event Title','title','event']
EVENT_TITLE_ALTS == << <<"E", "v", "e", "n", "t", " ", "T", "i", "t", "l", "e">>,
                       <<"t", "i", "t", "l", "e">>,
                       <<"e", "v", "e", "n", "t">> >>

\* for alt in ['Event Description','description','details']
EVENT_DESCRIPTION_ALTS == << <<"E", "v", "e", "n", "t", " ", "D", "e", "s", "c", "r", "i", "p", "t", "i", "o", "n">>,
                             <<"d", "e", "s", "c", "r", "i", "p", "t", "i", "o", "n">>,
                             <<"d", "e", "t", "a", "i", "l", "s">> >>

\* A table is [columns: sequence of names, data: sequence of rows], a row
\* being the sequence of its cells in column order.
HasColumn(t, name) == \E i \in 1..Len(t.columns) : t.columns[i] = name

ColumnIndex(t, name) == CHOOSE i \in 1..Len(t.columns) : t.columns[i] = name

\* df.columns = [c.strip() for c in df.columns]
StripColumns(t) ==
    [t EXCEPT !.columns = [i \in 1..Len(t.columns) |-> Strip(t.columns[i])]]

\* df[name] = df[name].apply(normalize_name)
NormalizeColumn(t, name) ==
    LET c == ColumnIndex(t, name)
    IN  [t EXCEPT !.data = [r \in 1..Len(t.data) |->
                               [t.data[r] EXCEPT ![c] = normalize_name(t.data[r][c])]]]

\* df = df.rename(columns={old: new})
Rename(t, old, new) ==
    [t EXCEPT !.columns = [i \in 1..Len(t.columns) |->
                              IF t.columns[i] = old THEN new ELSE t.columns[i]]]

\* if canonical not in df.columns: for alt in alts: if alt in df.columns:
\*     rename alt to canonical; break
RenameFirstAlt(t, canonical, alts) ==
    IF HasColumn(t, canonical) THEN t
    ELSE LET found == {i \in 1..Len(alts) : HasColumn(t, alts[i])}
         IN  IF found = {} THEN t
             ELSE Rename(t, alts[CHOOSE i \in found : \A j \in found : i <= j], canonical)

\* Series.fillna('') on one cell.
FillEmpty(cell) == IF cell = NULL THEN <<>> ELSE cell

\* df[name] = df[name].fillna('')
FillColumn(t, name) ==
    LET c == ColumnIndex(t, name)
    IN  [t EXCEPT !.data = [r \in 1..Len(t.data) |->
                               [t.data[r] EXCEPT ![c] = FillEmpty(t.data[r][c])]]]

\* The values of a column in the rows of one group, in row order.
GroupColumn(t, club, name) ==
    LET key  == ColumnIndex(t, COL_CLUB_NAME)
        c    == ColumnIndex(t, name)
        mine == SelectSeq(t.data, LAMBDA r : r[key] = club)
    IN  [i \in 1..Len(mine) |-> mine[i][c]]

\* df.groupby('club_name').agg(...) followed by text_for_grouping: one record
\* per distinct value of club_name.
EventAggregate(t) ==
    LET key   == ColumnIndex(t, COL_CLUB_NAME)
        clubs == {t.data[r][key] : r \in 1..Len(t.data)}
    IN  {[club_name |-> club,
          event_count |->
              Len(SelectSeq(GroupColumn(t, club, COL_EVENT_TITLE), LAMBDA x : x # NULL)),
          text_for_grouping |->
              Lower(Join(<<" ">>, GroupColumn(t, club, COL_EVENT_TITLE))
                    \o <<" ">>
                    \o Join(<<" ">>, GroupColumn(t, club, COL_EVENT_DESCRIPTION)))]
         : club \in clubs}

Raised(exception) == [status |-> exception, agg |-> {}]

\* The statements of parse_event_log in program order. df['club_name'] is
\* read before the alternative names are tried and raises KeyError when the
\* column is absent; df.get(name, '') is the string '' when the column is
\* absent and has no fillna.
parse_event_log(table) ==
    LET t1 == StripColumns(table)
    IN  IF ~HasColumn(t1, COL_CLUB_NAME) THEN Raised("KeyError")
        ELSE
        LET t2 == NormalizeColumn(t1, COL_CLUB_NAME)
            t3 == RenameFirstAlt(t2, COL_CLUB_NAME, CLUB_NAME_ALTS)
            t4 == RenameFirstAlt(t3, COL_EVENT_TITLE, EVENT_TITLE_ALTS)
            t5 == RenameFirstAlt(t4, COL_EVENT_DESCRIPTION, EVENT_DESCRIPTION_ALTS)
        IN  IF ~HasColumn(t5, COL_EVENT_TITLE) THEN Raised("AttributeError")
            ELSE
            LET t6 == FillColumn(t5, COL_EVENT_TITLE)
            IN  IF ~HasColumn(t6, COL_EVENT_DESCRIPTION) THEN Raised("AttributeError")
                ELSE
                LET t7 == FillColumn(t6, COL_EVENT_DESCRIPTION)
                IN  [status |-> "ok", agg |-> EventAggregate(t7)]

(***************************************************************************)
(* Event log: inputs and operation                                         *)
(***************************************************************************)

\* The number of rows of an event log.
MaxEvents == 2

\* Column names an event log may give its identity column; the last one is
\* neither club_name nor one of its alternatives.
IDENTITY_HEADERS ==
    {   <<"c", "l", "u", "b", "_", "n", "a", "m", "e">>,
        <<" ", "c", "l", "u", "b", "_", "n", "a", "m", "e", " ">>,
        <<"c", "l", "u", "b">>,
        <<"C", "l", "u", "b", " ", "N", "a", "m", "e">>,
        <<"c", "l", "u", "b", "n", "a", "m", "e">>,
        <<"o", "r", "g", "a", "n", "i", "z", "e", "r">> }

TITLE_HEADERS == {<<"e", "v", "e", "n", "t", "_", "t", "i", "t", "l", "e">>, <<"t", "i", "t", "l", "e">>}

DESCRIPTION_HEADERS == {<<"e", "v", "e", "n", "t", "_", "d", "e", "s", "c", "r", "i", "p", "t", "i", "o", "n">>, <<"d", "e", "t", "a", "i", "l", "s">>}

CLUB_CELLS == {<<"R", "o", "b", "o", "t", "i", "c", "s">>, <<" ", "r", "o", "b", "o", "t", "i", "c", "s">>, <<"D", "r", "a", "m", "a">>}

TITLE_CELLS == {<<"P", "y", "t", "h", "o", "n", " ", "H", "a", "c", "k", "a", "t", "h", "o", "n">>, NULL}

DESCRIPTION_CELLS == {<<"f", "u", "n">>}

EventTables ==
    {[columns |-> <<h1, h2, h3>>, data |-> d] :
        h1 \in IDENTITY_HEADERS, h2 \in TITLE_HEADERS, h3 \in DESCRIPTION_HEADERS,
        d \in SeqsUpTo({<<c, ti, de>> :
                           c \in CLUB_CELLS, ti \in TITLE_CELLS, de \in DESCRIPTION_CELLS},
                       MaxEvents)}

InitEvent ==
    /\ pc = "start"
    /\ file_like \in EventTables
    /\ event_out = Idle
    /\ catIdle /\ chatIdle /\ folderIdle /\ scoreIdle

ParseEventLog ==
    /\ pc = "start"
    /\ event_out' = parse_event_log(file_like)
    /\ pc' = "done"
    /\ UNCHANGED <<file_like, catVars, chatVars, folderVars, scoreVars>>

NextEvent == ParseEventLog

SpecEvent == InitEvent /\ [][NextEvent]_vars

\* The names under which the claim recognizes the identity column.
IdentityNames ==
    {<<"c", "l", "u", "b", "_", "n", "a", "m", "e">>,
     <<"C", "l", "u", "b", " ", "N", "a", "m", "e">>,
     <<"c", "l", "u", "b">>,
     <<"c", "l", "u", "b", "n", "a", "m", "e">>}

\* The input has an identity column, canonical or synonym (column names are
\* compared after trimming).
HasIdentityColumn ==
    \E i \in 1..Len(file_like.columns) : Strip(file_like.columns[i]) \in IdentityNames

\* The normalized identities of the input's rows.
InputIdentities ==
    {Lower(Strip(file_like.data[r][1])) : r \in 1..Len(file_like.data)}

\* C9: the identity column is resolved by the synonym fallback: an input whose
\* identity column is club_name or a recognized synonym is aggregated into one
\* record per normalized identity, and the aggregator fails exactly when no
\* identity column is present.
C9_IdentityResolution ==
    pc = "done" =>
        /\ (event_out.status # "ok") <=> ~HasIdentityColumn
        /\ HasIdentityColumn =>
              /\ {a.club_name : a \in event_out.agg} = InputIdentities
              /\ Cardinality(event_out.agg) = Cardinality(InputIdentities)

(***************************************************************************)
(* Numbers of the score tables: exact rationals [n, d] in lowest terms     *)
(* with d > 0; d = 0 is NaN.                                               *)
(***************************************************************************)

RECURSIVE Gcd(_, _)
Gcd(a, b) == IF b = 0 THEN a ELSE Gcd(b, a % b)

Abs(x) == IF x < 0 THEN -x ELSE x

\* The rational n/d, d # 0.
Rat(n, d) ==
    LET g == Gcd(Abs(n), Abs(d))
        s == IF d < 0 THEN -1 ELSE 1
    IN  [n |-> (s * n) \div g, d |-> (s * d) \div g]

NaN == [n |-> 0, d |-> 0]

IsNaN(x) == x.d = 0

Num(k) == [n |-> k, d |-> 1]

RAdd(x, y) == Rat(x.n * y.d + y.n * x.d, x.d * y.d)
RSub(x, y) == Rat(x.n * y.d - y.n * x.d, x.d * y.d)
RMul(x, y) == Rat(x.n * y.n, x.d * y.d)
RDiv(x, y) == Rat(x.n * y.d, x.d * y.n)
RLt(x, y)  == x.n * y.d < y.n * x.d
RLe(x, y)  == x.n * y.d <= y.n * x.d

\* Series.max() and Series.min() of the values xs (a non-empty sequence).
RMax(xs) == xs[CHOOSE i \in 1..Len(xs) : \A j \in 1..Len(xs) : RLe(xs[j], xs[i])]
RMin(xs) == xs[CHOOSE i \in 1..Len(xs) : \A j \in 1..Len(xs) : RLe(xs[i], xs[j])]

\* Series.fillna(v) on one numeric cell.
FillNum(x, v) == IF IsNaN(x) THEN v ELSE x

(***************************************************************************)
(* pd.merge(left, right, on='club_name', how='outer')                      *)
(***************************************************************************)

\* The characters of the club identities, in code-point order.
CHAR_ORDER == <<" ", "a", "b", "c", "d", "e", "f", "g", "h", "i", "j", "k", "l", "m",
                "n", "o", "p", "q", "r", "s", "t", "u", "v", "w", "x", "y", "z">>

CharRank(c) == CHOOSE i \in 1..Len(CHAR_ORDER) : CHAR_ORDER[i] = c

\* a < b for strings.
RECURSIVE StrLess(_, _)
StrLess(a, b) ==
    IF b = <<>> THEN FALSE
    ELSE IF a = <<>> THEN TRUE
    ELSE IF Head(a) = Head(b) THEN StrLess(Tail(a), Tail(b))
    ELSE CharRank(Head(a)) < CharRank(Head(b))

\* The elements of a finite set of strings in ascending order.
RECURSIVE SortedStrings(_)
SortedStrings(S) ==
    IF S = {} THEN <<>>
    ELSE LET least == CHOOSE x \in S : \A y \in S \ {x} : StrLess(x, y)
         IN  <<least>> \o SortedStrings(S \ {least})

KeysOf(table) == {table[i].club_name : i \in 1..Len(table)}

RowsOfKey(table, key) == SelectSeq(table, LAMBDA r : r.club_name = key)

\* Every pair of a row of ls and a row of rs, in the order of ls and then rs.
RECURSIVE Pairs(_, _)
Pairs(ls, rs) ==
    IF ls = <<>> THEN <<>>
    ELSE [j \in 1..Len(rs) |-> ls[1] @@ rs[j]] \o Pairs(Tail(ls), rs)

\* The rows an outer merge gives one key: the pairs of its left and right
\* rows, or the rows of the one side that has the key with the columns of the
\* other side null.
MergeKey(left, right, key, leftNull, rightNull) ==
    LET ls == RowsOfKey(left, key)
        rs == RowsOfKey(right, key)
    IN  IF ls # <<>> /\ rs # <<>> THEN Pairs(ls, rs)
        ELSE IF ls # <<>> THEN [i \in 1..Len(ls) |-> ls[i] @@ rightNull]
        ELSE [j \in 1..Len(rs) |-> rs[j] @@ leftNull]

RECURSIVE MergeKeys(_, _, _, _, _)
MergeKeys(left, right, keys, leftNull, rightNull) ==
    IF keys = <<>> THEN <<>>
    ELSE MergeKey(left, right, Head(keys), leftNull, rightNull)
         \o MergeKeys(left, right, Tail(keys), leftNull, rightNull)

\* The outer merge: every key of either table, the keys in ascending order.
OuterMerge(left, right, leftNull, rightNull) ==
    MergeKeys(left, right, SortedStrings(KeysOf(left) \cup KeysOf(right)),
              leftNull, rightNull)

\* The columns of each argument other than club_name, all null.
SurveyNull ==
    [heard_often_mean |-> NaN, participation_mean |-> NaN,
     num_responses |-> NaN, feedback_concat |-> NULL]

SentimentNull == [sentiment_score |-> NaN]

WhatsappNull ==
    [whatsapp_msgs |-> NaN, whatsapp_unique_senders |-> NaN,
     whatsapp_event_mentions |-> NaN]

EventNull == [event_count |-> NaN, text_for_grouping |-> NULL]

\* The three pd.merge calls.
MergeSources(survey, sentiment, whatsapp, events) ==
    LET m1 == OuterMerge(survey, sentiment, SurveyNull, SentimentNull)
        m2 == OuterMerge(m1, whatsapp, SurveyNull @@ SentimentNull, WhatsappNull)
    IN  OuterMerge(m2, events, SurveyNull @@ SentimentNull @@ WhatsappNull, EventNull)

\* The neutral sentiment a club without survey rows is given.
NeutralSentiment == Rat(1, 2)

\* Mutant: a missing sentiment is filled with 0 like the other metrics.
FillRowSentimentZero(r) ==
    [r EXCEPT !.heard_often_mean = FillNum(@, Num(0)),
              !.participation_mean = FillNum(@, Num(0)),
              !.feedback_concat = FillEmpty(@),
              !.sentiment_score = FillNum(@, Num(0)),
              !.whatsapp_msgs = FillNum(@, Num(0)),
              !.whatsapp_event_mentions = FillNum(@, Num(0)),
              !.whatsapp_unique_senders = FillNum(@, Num(0)),
              !.event_count = FillNum(@, Num(0)),
              !.text_for_grouping = FillEmpty(@)]

\* The fillna statements on one row.
FillRow(r) ==
    [r EXCEPT !.heard_often_mean = FillNum(@, Num(0)),
              !.participation_mean = FillNum(@, Num(0)),
              !.feedback_concat = FillEmpty(@),
              !.sentiment_score = FillNum(@, NeutralSentiment),
              !.whatsapp_msgs = FillNum(@, Num(0)),
              !.whatsapp_event_mentions = FillNum(@, Num(0)),
              !.whatsapp_unique_senders = FillNum(@, Num(0)),
              !.event_count = FillNum(@, Num(0)),
              !.text_for_grouping = FillEmpty(@)]

\* df after the merges, the fillna statements and the group column.
MergedTable(survey, sentiment, whatsapp, events) ==
    LET m == MergeSources(survey, sentiment, whatsapp, events)
    IN  [i \in 1..Len(m) |->
            LET r == FillRow(m[i])
            IN  r @@ [group |-> assign_club_to_category(r.club_name, r.text_for_grouping)]]

(***************************************************************************)
(* compute_group_scores: scoring, ranking, winners                         *)
(***************************************************************************)

\* g['heard_norm'] = g['heard_often_mean'] / 5.0
HEARD_CEILING == 5

\* The denominator of the weights written as hundredths.
WEIGHT_SCALE == 100

default_weights ==
    [heard |-> Rat(30, WEIGHT_SCALE), participation |-> Rat(30, WEIGHT_SCALE),
     sentiment |-> Rat(20, WEIGHT_SCALE), whatsapp_msgs |-> Rat(10, WEIGHT_SCALE),
     event_count |-> Rat(10, WEIGHT_SCALE)]

\* The values of one column, in row order.
ColumnOf(table, col) == [i \in 1..Len(table) |-> table[i][col]]

\* Mutant: the ceiling division is left out.
HeardNormRaw(v) == v

HeardNorm(v) == RDiv(v, Num(HEARD_CEILING))

\* Mutant: a flat group is given the maximal value 1.0.
MinMaxNormFlatOne(v, lo, hi) ==
    IF RLt(Num(0), RSub(hi, lo)) THEN RDiv(RSub(v, lo), RSub(hi, lo)) ELSE Num(1)

\* if max - min > 0: (v - min) / (max - min) else: 0.0, lo and hi being the
\* column's min() and max().
MinMaxNorm(v, lo, hi) ==
    IF RLt(Num(0), RSub(hi, lo)) THEN RDiv(RSub(v, lo), RSub(hi, lo)) ELSE Num(0)

\* if max > 0: v / max else: 0.0, hi being the column's max().
MaxNorm(v, hi) ==
    IF RLt(Num(0), hi) THEN RDiv(v, hi) ELSE Num(0)

WeightedSum(w, heard, participation, sentiment, msgs, events) ==
    RAdd(RAdd(RAdd(RAdd(RMul(w.heard, heard),
                        RMul(w.participation, participation)),
                   RMul(w.sentiment, sentiment)),
              RMul(w.whatsapp_msgs, msgs)),
         RMul(w.event_count, events))

\* The body of the loop over df.groupby('group'): the rows g of one group
\* with their within-group columns.
ScoreGroup(g, w) ==
    LET pmin == RMin(ColumnOf(g, "participation_mean"))
        pmax == RMax(ColumnOf(g, "participation_mean"))
        mmin == RMin(ColumnOf(g, "whatsapp_msgs"))
        mmax == RMax(ColumnOf(g, "whatsapp_msgs"))
        emin == RMin(ColumnOf(g, "event_count"))
        emax == RMax(ColumnOf(g, "event_count"))
    IN
    [i \in 1..Len(g) |->
        LET r  == g[i]
            hn == HeardNorm(r.heard_often_mean)
            pn == MinMaxNorm(r.participation_mean, pmin, pmax)
            sn == r.sentiment_score
            mn == MinMaxNorm(r.whatsapp_msgs, mmin, mmax)
            en == MinMaxNorm(r.event_count, emin, emax)
        IN  r @@ [heard_norm |-> hn, participation_norm |-> pn, sentiment_norm |-> sn,
                  whatsapp_msgs_norm |-> mn, event_count_n |-> en,
                  group_score |-> WeightedSum(w, hn, pn, sn, mn, en)]]

\* The ascending order in which groupby('group') visits the group names.
GROUP_SORT_ORDER ==
    <<"entertainment", "literature & knowledge", "others", "sports", "tech">>

RowsOfGroup(table, group) == SelectSeq(table, LAMBDA r : r.group = group)

\* pd.concat(final_rows, ignore_index=True)
RECURSIVE ScoreGroupsFrom(_, _, _)
ScoreGroupsFrom(table, k, w) ==
    IF k > Len(GROUP_SORT_ORDER) THEN <<>>
    ELSE LET g == RowsOfGroup(table, GROUP_SORT_ORDER[k])
         IN  (IF g = <<>> THEN <<>> ELSE ScoreGroup(g, w))
             \o ScoreGroupsFrom(table, k + 1, w)

\* The global columns and overall_score.
ScoreOverall(table, w) ==
    LET pmax == RMax(ColumnOf(table, "participation_mean"))
        mmax == RMax(ColumnOf(table, "whatsapp_msgs"))
        emax == RMax(ColumnOf(table, "event_count"))
    IN
    [i \in 1..Len(table) |->
        LET r  == table[i]
            hn == HeardNorm(r.heard_often_mean)
            pn == MaxNorm(r.participation_mean, pmax)
            sn == r.sentiment_score
            mn == MaxNorm(r.whatsapp_msgs, mmax)
            en == MaxNorm(r.event_count, emax)
        IN  r @@ [heard_norm_global |-> hn, participation_norm_global |-> pn,
                  sentiment_norm_global |-> sn, whatsapp_msgs_norm_global |-> mn,
                  event_count_norm_global |-> en,
                  overall_score |-> WeightedSum(w, hn, pn, sn, mn, en)]]

\* The values xs in descending order.
RECURSIVE SortedDescending(_)
SortedDescending(xs) ==
    IF xs = <<>> THEN <<>>
    ELSE LET top == CHOOSE i \in 1..Len(xs) : \A j \in 1..Len(xs) : RLe(xs[j], xs[i])
         IN  <<xs[top]>>
             \o SortedDescending([j \in 1..(Len(xs) - 1) |->
                                     IF j < top THEN xs[j] ELSE xs[j + 1]])

\* Mutant: method='dense': ties share a rank and the next value takes the
\* next integer.
DenseRanks(xs) ==
    [i \in 1..Len(xs) |->
        1 + Cardinality({xs[j] : j \in {k \in 1..Len(xs) : RLt(xs[i], xs[k])}})]

\* Series.rank(method='min', ascending=False).astype(int): the first position
\* of the value among the values in descending order.
MinRanks(xs) ==
    LET sorted == SortedDescending(xs)
    IN  [i \in 1..Len(xs) |->
            CHOOSE p \in 1..Len(sorted) :
                /\ sorted[p] = xs[i]
                /\ \A q \in 1..(p - 1) : sorted[q] # xs[i]]

WithRanks(table) ==
    LET ranks == MinRanks(ColumnOf(table, "overall_score"))
    IN  [i \in 1..Len(table) |-> table[i] @@ [overall_rank |-> ranks[i]]]

\* Mutant: the row of the least group_score is taken (idxmin).
IdxMin(g) ==
    CHOOSE i \in 1..Len(g) :
        /\ \A j \in 1..Len(g) : RLe(g[i].group_score, g[j].group_score)
        /\ \A j \in 1..(i - 1) : g[j].group_score # g[i].group_score

\* idxmax: the first row of the greatest group_score.
IdxMax(g) ==
    CHOOSE i \in 1..Len(g) :
        /\ \A j \in 1..Len(g) : RLe(g[j].group_score, g[i].group_score)
        /\ \A j \in 1..(i - 1) : g[j].group_score # g[i].group_score

\* final.loc[final.groupby('group')['group_score'].idxmax()] with the four
\* columns kept and group_score renamed.
RECURSIVE WinnersFrom(_, _)
WinnersFrom(table, k) ==
    IF k > Len(GROUP_SORT_ORDER) THEN <<>>
    ELSE LET g == RowsOfGroup(table, GROUP_SORT_ORDER[k])
         IN  (IF g = <<>> THEN <<>>
              ELSE LET r == g[IdxMax(g)]
                   IN  <<[group |-> r.group, club_name |-> r.club_name,
                          category_score |-> r.group_score,
                          overall_score |-> r.overall_score]>>)
             \o WinnersFrom(table, k + 1)

\* The row r put into the rows sorted by descending group_score, behind the
\* rows of an equal score.
RECURSIVE InsertDescending(_, _)
InsertDescending(sorted, r) ==
    IF sorted = <<>> THEN <<r>>
    ELSE IF RLt(Head(sorted).group_score, r.group_score) THEN <<r>> \o sorted
    ELSE <<Head(sorted)>> \o InsertDescending(Tail(sorted), r)

RECURSIVE SortDescending(_, _)
SortDescending(g, sorted) ==
    IF g = <<>> THEN sorted
    ELSE SortDescending(Tail(g), InsertDescending(sorted, Head(g)))

\* final.sort_values(['group','group_score'], ascending=[True, False])
RECURSIVE SortFinalFrom(_, _)
SortFinalFrom(table, k) ==
    IF k > Len(GROUP_SORT_ORDER) THEN <<>>
    ELSE SortDescending(RowsOfGroup(table, GROUP_SORT_ORDER[k]), <<>>)
         \o SortFinalFrom(table, k + 1)

\* final.rename(columns={...}) on one row.
RenameRow(r) ==
    [c \in (DOMAIN r \ {"heard_often_mean", "participation_mean", "whatsapp_msgs",
                        "event_count", "group_score"})
           \cup {"popularity_score", "participation_score", "engagement_score",
                 "activity_score", "category_score"} |->
        CASE c = "popularity_score"    -> r.heard_often_mean
          [] c = "participation_score" -> r.participation_mean
          [] c = "engagement_score"    -> r.whatsapp_msgs
          [] c = "activity_score"      -> r.event_count
          [] c = "category_score"      -> r.group_score
          [] OTHER                     -> r[c]]

\* final when the winners are taken: group scores, overall scores, ranks.
ScoredTable(merged, w) == WithRanks(ScoreOverall(ScoreGroupsFrom(merged, 1, w), w))

\* The table compute_group_scores returns first: sorted and renamed.
FinalTable(scored) ==
    LET sorted == SortFinalFrom(scored, 1)
    IN  [i \in 1..Len(sorted) |-> RenameRow(sorted[i])]

\* The table compute_group_scores returns second.
WinnersTable(scored) == WinnersFrom(scored, 1)

(***************************************************************************)
(* compute_group_scores: inputs and operation                              *)
(***************************************************************************)

\* The number of rows of whatsapp_df (one per chat file).
MaxChatRows == 2

\* Normalized club identities: CHESS matches no category keyword by its name,
\* CODING and ROBOTICS match "tech".
CHESS == <<"c", "h", "e", "s", "s">>
CODING == <<"c", "o", "d", "i", "n", "g">>
ROBOTICS == <<"r", "o", "b", "o", "t", "i", "c", "s">>

\* The clubs that may have chat files, survey rows and event rows.
CLUB_IDS == {CHESS, CODING, ROBOTICS}
SURVEY_CLUBS == {CODING, ROBOTICS}
EVENT_CLUBS == {CHESS, ROBOTICS}

\* What parse_survey and compute_sentiment_per_club give a club: the sentiment
\* of an empty feedback text is 0.5.
SURVEY_PROFILES ==
    {[heard_often_mean |-> Num(5), participation_mean |-> Num(1), num_responses |-> Num(2),
      feedback_concat |-> <<"g", "r", "e", "a", "t">>, sentiment_score |-> Num(1)],
     [heard_often_mean |-> Rat(5, 2), participation_mean |-> Rat(1, 2), num_responses |-> Num(2),
      feedback_concat |-> <<>>, sentiment_score |-> Rat(1, 2)]}

\* What parse_whatsapp_folder gives a chat file: a file that could not be read
\* or has no message line, and a file with messages.
CHAT_PROFILES ==
    {[whatsapp_msgs |-> Num(0), whatsapp_unique_senders |-> Num(0),
      whatsapp_event_mentions |-> Num(0)],
     [whatsapp_msgs |-> Num(4), whatsapp_unique_senders |-> Num(2),
      whatsapp_event_mentions |-> Num(1)]}

\* What parse_event_log gives a club: one event without title or description,
\* and two events.
EVENT_PROFILES ==
    {[event_count |-> Num(1), text_for_grouping |-> <<" ">>],
     [event_count |-> Num(2), text_for_grouping |-> <<"h", "a", "c", "k", "a", "t", "h", "o", "n", " ", "f", "u", "n">>]}

\* A table with one row per club of S, in ascending order of club_name (the
\* order groupby gives), the row of club c holding the columns cols of f[c].
TableOf(S, f, cols) ==
    LET keys == SortedStrings(S)
    IN  [i \in 1..Len(keys) |->
            [c \in cols \cup {"club_name"} |->
                IF c = "club_name" THEN keys[i] ELSE f[keys[i]][c]]]

InitScore ==
    /\ pc = "start"
    /\ \E S \in SUBSET SURVEY_CLUBS : \E f \in [S -> SURVEY_PROFILES] :
          /\ survey_agg_df = TableOf(S, f, {"heard_often_mean", "participation_mean",
                                            "num_responses", "feedback_concat"})
          /\ sentiment_df = TableOf(S, f, {"sentiment_score"})
    /\ \E S \in SUBSET EVENT_CLUBS : \E f \in [S -> EVENT_PROFILES] :
          event_agg_df = TableOf(S, f, {"event_count", "text_for_grouping"})
    /\ whatsapp_df \in
          {q \in SeqsUpTo({[club_name |-> c] @@ p : c \in CLUB_IDS, p \in CHAT_PROFILES},
                          MaxChatRows) : q # <<>>}
    /\ df = <<>>
    /\ final = <<>>
    /\ winners = <<>>
    /\ catIdle /\ chatIdle /\ folderIdle /\ eventIdle

ComputeGroupScores ==
    /\ pc = "start"
    /\ LET merged == MergedTable(survey_agg_df, sentiment_df, whatsapp_df, event_agg_df)
           scored == ScoredTable(merged, default_weights)
       IN  /\ df' = merged
           /\ final' = FinalTable(scored)
           /\ winners' = WinnersTable(scored)
    /\ pc' = "done"
    /\ UNCHANGED <<survey_agg_df, sentiment_df, whatsapp_df, event_agg_df,
                   catVars, chatVars, folderVars, eventVars>>

NextScore == ComputeGroupScores

SpecScore == InitScore /\ [][NextScore]_vars

(***************************************************************************)
(* compute_group_scores: properties                                        *)
(***************************************************************************)

\* The identities that appear in at least one of the three sources.
SourceIdentities ==
    {survey_agg_df[i].club_name : i \in 1..Len(survey_agg_df)}
    \cup {whatsapp_df[i].club_name : i \in 1..Len(whatsapp_df)}
    \cup {event_agg_df[i].club_name : i \in 1..Len(event_agg_df)}

FinalRowsOf(club) == {i \in 1..Len(final) : final[i].club_name = club}

\* C1: every identity that appears in at least one source has exactly one
\* row in the final table, and the final table has no row of another identity.
C1_OuterJoinCompleteness ==
    pc = "done" =>
        /\ \A club \in SourceIdentities : Cardinality(FinalRowsOf(club)) = 1
        /\ \A i \in 1..Len(final) : final[i].club_name \in SourceIdentities

\* a > b, a and b being rationals.
Greater(a, b) == a.n * b.d > b.n * a.d

\* C3: over the whole final table a greater overall_score has a smaller
\* overall_rank, equal scores have equal ranks, and a rank is 1 plus the
\* number of rows of a strictly greater overall_score, whatever the categories.
C3_RankConsistency ==
    pc = "done" =>
        \A a \in 1..Len(final) :
            /\ final[a].overall_rank =
                   1 + Cardinality({b \in 1..Len(final) :
                                       Greater(final[b].overall_score, final[a].overall_score)})
            /\ \A b \in 1..Len(final) :
                  /\ Greater(final[a].overall_score, final[b].overall_score)
                         => final[a].overall_rank < final[b].overall_rank
                  /\ final[a].overall_score = final[b].overall_score
                         => final[a].overall_rank = final[b].overall_rank

\* Two clubs of different categories share rank 1 and the next club has
\* rank 3.
C3_Witness ==
    /\ pc = "done"
    /\ \E a, b, c \in 1..Len(final) :
          /\ final[a].group # final[b].group
          /\ final[a].overall_rank = 1
          /\ final[b].overall_rank = 1
          /\ final[c].overall_rank = 3

\* The within-category columns of the three min-max metrics: raw value and
\* normalized value.
MinMaxColumns ==
    {<<"participation_score", "participation_norm">>,
     <<"engagement_score", "whatsapp_msgs_norm">>,
     <<"activity_score", "event_count_n">>}

SameCategory(i) == {j \in 1..Len(final) : final[j].group = final[i].group}

\* C4: within a category, a metric whose raw value is the same for all clubs
\* is normalized to 0 for all of them; otherwise a club's normalized value is
\* (value - category min) / (category max - category min).
C4_FlatGroupNormalization ==
    pc = "done" =>
        \A i \in 1..Len(final) : \A m \in MinMaxColumns :
            LET raw  == m[1]
                norm == m[2]
                G    == SameCategory(i)
                lo   == CHOOSE x \in {final[j][raw] : j \in G} :
                            \A j \in G : ~Greater(x, final[j][raw])
                hi   == CHOOSE x \in {final[j][raw] : j \in G} :
                            \A j \in G : ~Greater(final[j][raw], x)
            IN  IF \A j \in G : final[j][raw] = final[i][raw]
                THEN final[i][norm] = Num(0)
                ELSE /\ final[i][norm].n * (hi.n * lo.d - lo.n * hi.d) * final[i][raw].d * lo.d
                          = final[i][norm].d * (final[i][raw].n * lo.d - lo.n * final[i][raw].d)
                              * hi.d * lo.d
                     /\ final[i][raw] = lo => final[i][norm] = Num(0)
                     /\ final[i][raw] = hi => final[i][norm] = Num(1)

\* Two clubs of one category have the same non-zero message count and both
\* a normalized message count of 0, while their participation differs.
C4_Witness ==
    /\ pc = "done"
    /\ \E i, j \in 1..Len(final) :
          /\ final[i].club_name # final[j].club_name
          /\ final[i].group = final[j].group
          /\ Cardinality(SameCategory(i)) = 2
          /\ final[i].engagement_score = Num(4)
          /\ final[j].engagement_score = Num(4)
          /\ final[i].whatsapp_msgs_norm = Num(0)
          /\ final[j].whatsapp_msgs_norm = Num(0)
          /\ final[i].participation_norm = Num(1)
          /\ final[j].participation_norm = Num(0)

\* C5: the winners table has exactly one row for every category that has a
\* club and no other row, and the club of a row belongs to the category and
\* has a category_score that no club of the category exceeds.
C5_WinnerSelection ==
    pc = "done" =>
        /\ \A i \in 1..Len(final) :
              Cardinality({k \in 1..Len(winners) : winners[k].group = final[i].group}) = 1
        /\ \A k \in 1..Len(winners) :
              /\ \E i \in 1..Len(final) :
                    /\ final[i].group = winners[k].group
                    /\ final[i].club_name = winners[k].club_name
                    /\ final[i].category_score = winners[k].category_score
              /\ \A i \in 1..Len(final) :
                    final[i].group = winners[k].group
                        => ~Greater(final[i].category_score, winners[k].category_score)

\* Two categories have a winner, one of them chosen among clubs of different
\* category scores.
C5_Witness ==
    /\ pc = "done"
    /\ Len(winners) = 2
    /\ \E i, j \in 1..Len(final) :
          /\ final[i].group = final[j].group
          /\ Greater(final[i].category_score, final[j].category_score)

\* The inputs are in their ranges: popularity in [0, 5], sentiment in [0, 1],
\* participation and the two counts not negative.
InputsInRange ==
    /\ \A i \in 1..Len(survey_agg_df) :
          /\ survey_agg_df[i].heard_often_mean.n >= 0
          /\ survey_agg_df[i].heard_often_mean.n <= 5 * survey_agg_df[i].heard_often_mean.d
          /\ survey_agg_df[i].participation_mean.n >= 0
    /\ \A i \in 1..Len(sentiment_df) :
          /\ sentiment_df[i].sentiment_score.n >= 0
          /\ sentiment_df[i].sentiment_score.n <= sentiment_df[i].sentiment_score.d
    /\ \A i \in 1..Len(whatsapp_df) : whatsapp_df[i].whatsapp_msgs.n >= 0
    /\ \A i \in 1..Len(event_agg_df) : event_agg_df[i].event_count.n >= 0

UnitInterval(x) == x.d > 0 /\ x.n >= 0 /\ x.n <= x.d

\* C6: with the weights 0.30, 0.30, 0.20, 0.10, 0.10 and inputs in their
\* ranges, every category_score and every overall_score is in [0, 1].
C6_WeightClosure ==
    pc = "done" /\ InputsInRange =>
        \A i \in 1..Len(final) :
            /\ UnitInterval(final[i].category_score)
            /\ UnitInterval(final[i].overall_score)

\* A club reaches the score 1 in its category and overall, and another club
\* of the table scores less.
C6_Witness ==
    /\ pc = "done" /\ InputsInRange
    /\ \E i, j \in 1..Len(final) :
          /\ final[i].category_score = Num(1)
          /\ final[i].overall_score = Num(1)
          /\ Greater(final[i].overall_score, final[j].overall_score)

InSurvey(club) == \E i \in 1..Len(survey_agg_df) : survey_agg_df[i].club_name = club
InChat(club)   == \E i \in 1..Len(whatsapp_df) : whatsapp_df[i].club_name = club
InEvents(club) == \E i \in 1..Len(event_agg_df) : event_agg_df[i].club_name = club

\* C7: after the merge step a club absent from a source has that source's
\* metrics at the defaults (popularity 0, participation 0, feedback text
\* empty, sentiment 0.5, the three chat counts 0, event count 0, grouping
\* text empty), and no metric used in scoring is null.
C7_DefaultFill ==
    pc = "done" =>
        \A i \in 1..Len(df) :
            /\ ~InSurvey(df[i].club_name) =>
                  /\ df[i].heard_often_mean = [n |-> 0, d |-> 1]
                  /\ df[i].participation_mean = [n |-> 0, d |-> 1]
                  /\ df[i].feedback_concat = <<>>
                  /\ df[i].sentiment_score = [n |-> 1, d |-> 2]
            /\ ~InChat(df[i].club_name) =>
                  /\ df[i].whatsapp_msgs = [n |-> 0, d |-> 1]
                  /\ df[i].whatsapp_event_mentions = [n |-> 0, d |-> 1]
                  /\ df[i].whatsapp_unique_senders = [n |-> 0, d |-> 1]
            /\ ~InEvents(df[i].club_name) =>
                  /\ df[i].event_count = [n |-> 0, d |-> 1]
                  /\ df[i].text_for_grouping = <<>>
            /\ \A c \in {"heard_often_mean", "participation_mean", "sentiment_score",
                         "whatsapp_msgs", "event_count"} : df[i][c].d # 0

\* The table holds a club that is only in the chat files, a club that is only
\* in the event log and a club that is only in the survey.
C7_Witness ==
    /\ pc = "done"
    /\ \E i, j, k \in 1..Len(df) :
          /\ InChat(df[i].club_name) /\ ~InSurvey(df[i].club_name) /\ ~InEvents(df[i].club_name)
          /\ InEvents(df[j].club_name) /\ ~InSurvey(df[j].club_name) /\ ~InChat(df[j].club_name)
          /\ InSurvey(df[k].club_name) /\ ~InChat(df[k].club_name) /\ ~InEvents(df[k].club_name)

====
